---- MODULE Spec2Model ----
(***************************************************************************)
(* Channel-resilience layer of interview-coach: the ConnectionManager of   *)
(* lib/voice/connectionManager.ts (shipped in src/lib/types.ts) and the    *)
(* pure backoff calculator it uses.                                        *)
(*                                                                         *)
(* One action per public method, socket callback or timer callback.  The   *)
(* socket-open callback is the only handler with a loop (flushQueue); its  *)
(* iterations are separate steps guarded by pc, and no other handler runs  *)
(* while pc = "flush" (single cooperative timeline).                       *)
(***************************************************************************)
EXTENDS Integers, Sequences, FiniteSets, TLC

\* ---- configuration of the modelled manager (scaled-down options) ----
maxAttempts == 1
maxQueueSize == 2

\* ---- defaults of the constructor (milliseconds) ----
heartbeatIntervalMs == 15000
deadConnectionMs == 30000

\* ---- bounds of the exploration ----
MaxSends == 3
AttemptCap == maxAttempts + 2
MaxQueueLen == maxQueueSize + 2
TickMs == 2 * heartbeatIntervalMs
MaxAge == deadConnectionMs + TickMs
MaxBkAttempt == 5
MaxRequeued == 1
MaxLiveSends == 1
MaxPolls == 30
MaxFragments == 2
MaxFrames == 1
ArrivalGapPolls == 5

\* ---- constants of the voice hook (milliseconds, samples, amplitude) ----
PollMs == 80
STREAM_SETTLE_MS == 900
STREAM_HARD_SETTLE_MS == 2200
COACH_STT_TIMEOUT_MS == 3500
MinSttSamples == 4000
MinMeanAbs == 80
SilenceChunkMs == 200

\* ---- WebSocket readyState values ----
SOCKET_CONNECTING == 0
SOCKET_OPEN == 1
SOCKET_CLOSING == 2
SOCKET_CLOSED == 3

\* ---- messages: application messages are 1..MaxSends in send() order ----
Hello == MaxSends + 1
Heartbeat == MaxSends + 2

ConnectionState == {"connecting", "connected", "reconnecting", "offline", "error"}

\* outcomes of one call of socket.send(serialize(message))
SendOutcomes == {"ok", "throw", "closing"}

\* the reasons scheduleReconnect is called with
TerminalReasons ==
  {"Connection timed out.", "Send failed. Reconnecting...",
   "Connection closed.", "Unable to open WebSocket."}

\* denominators of the rational inputs of calculateBackoffDelay
JitterDen == 100
RandomDen == 4

VARIABLES
  state, attempt, queue, reconnectTimer, liveTimers, heartbeatTimer,
  manuallyStopped, online, socket, readyState, age,
  nextMsg, pc, lastOp,
  notes, errs, sent, created,
  flushSnap, scen, scenK,
  bk, turn

vars ==
  <<state, attempt, queue, reconnectTimer, liveTimers, heartbeatTimer,
    manuallyStopped, online, socket, readyState, age,
    nextMsg, pc, lastOp, notes, errs, sent, created,
    flushSnap, scen, scenK, bk, turn>>

Max(a, b) == IF a >= b THEN a ELSE b
Min(a, b) == IF a <= b THEN a ELSE b

RECURSIVE Pow2(_)
Pow2(n) == IF n <= 0 THEN 1 ELSE 2 * Pow2(n - 1)

Last(s) == s[Len(s)]

\* the last n elements of s (all of s when it is shorter)
LastN(s, n) == SubSeq(s, Max(1, Len(s) - n + 1), Len(s))

\* ------------------------------------------------------------------------
\* Backoff calculator.  options.jitterRatio is jitterRatio / JitterDen and
\* options.random() returns random / RandomDen; Math.round is
\* floor(x + 1/2).
\* ------------------------------------------------------------------------
\* mutant: the Math.min cap is missing
calculateBackoffDelay_noCap(a, options) ==
  LET exponent == Max(0, a - 1)
      capped == options.baseDelayMs * Pow2(exponent)
      den == JitterDen * RandomDen
      num == capped * den
               + capped * options.jitterRatio * (2 * options.random - RandomDen)
      rounded == (2 * num + den) \div (2 * den)
  IN  Max(250, rounded)

\* mutant: the exponent is attempt instead of attempt - 1
calculateBackoffDelay_expOff(a, options) ==
  LET exponent == Max(0, a)
      raw == options.baseDelayMs * Pow2(exponent)
      capped == Min(raw, options.maxDelayMs)
      den == JitterDen * RandomDen
      num == capped * den
               + capped * options.jitterRatio * (2 * options.random - RandomDen)
      rounded == (2 * num + den) \div (2 * den)
  IN  Max(250, rounded)

calculateBackoffDelay(a, options) ==
  LET exponent == Max(0, a - 1)
      raw == options.baseDelayMs * Pow2(exponent)
      capped == Min(raw, options.maxDelayMs)
      den == JitterDen * RandomDen
      \* capped + capped * jitterRatio * (random * 2 - 1), over den
      num == capped * den
               + capped * options.jitterRatio * (2 * options.random - RandomDen)
      rounded == (2 * num + den) \div (2 * den)
  IN  Max(250, rounded)

\* ------------------------------------------------------------------------
\* The manager as a record, so that the private methods are operators.
\*   notes   onStateChange notifications of the running handler, after the
\*           last one emitted before it
\*   errs    onError reports of the running handler
\*   sent    frames socket.send accepted during the running handler
\*   created createSocket calls that returned a socket during the handler
\* ------------------------------------------------------------------------
Cur ==
  [state |-> state, attempt |-> attempt, queue |-> queue,
   reconnectTimer |-> reconnectTimer, liveTimers |-> liveTimers,
   heartbeatTimer |-> heartbeatTimer, manuallyStopped |-> manuallyStopped,
   online |-> online, socket |-> socket, readyState |-> readyState,
   age |-> age, notes |-> notes, errs |-> errs, sent |-> sent,
   created |-> created]

\* entry of a handler: the per-handler observations start empty
Begin ==
  [Cur EXCEPT !.notes = IF notes = <<>> THEN <<>> ELSE <<Last(notes)>>,
              !.errs = <<>>, !.sent = <<>>, !.created = 0]

\* mutant: the notification is emitted without comparing the states
transition_always(s, st) ==
  [s EXCEPT !.state = st, !.notes = Append(@, st)]

transition(s, st) ==
  IF s.state = st THEN s
  ELSE [s EXCEPT !.state = st, !.notes = Append(@, st)]

safeCloseSocket(s) ==
  IF ~s.socket THEN s
  ELSE [s EXCEPT !.socket = FALSE, !.readyState = SOCKET_CLOSED]

clearReconnectTimer(s) ==
  IF s.reconnectTimer = "null" THEN s
  ELSE [s EXCEPT !.reconnectTimer = "null",
                 !.liveTimers = IF s.reconnectTimer = "pending" THEN @ - 1 ELSE @]

clearHeartbeatTimer(s) == [s EXCEPT !.heartbeatTimer = FALSE]

startHeartbeat(s) == [clearHeartbeatTimer(s) EXCEPT !.heartbeatTimer = TRUE]

\* mutant: the reopen timer is not set
scheduleReconnect_noTimer(s, reason) ==
  IF s.manuallyStopped THEN s
  ELSE IF ~s.online THEN transition(s, "offline")
  ELSE LET s1 == [s EXCEPT !.attempt = @ + 1]
       IN  IF s1.attempt > maxAttempts
           THEN [transition(s1, "error") EXCEPT !.errs = Append(@, reason)]
           ELSE clearReconnectTimer(transition(s1, "reconnecting"))

scheduleReconnect(s, reason) ==
  IF s.manuallyStopped THEN s
  ELSE IF ~s.online THEN transition(s, "offline")
  ELSE LET s1 == [s EXCEPT !.attempt = @ + 1]
       IN  IF s1.attempt > maxAttempts
           THEN [transition(s1, "error") EXCEPT !.errs = Append(@, reason)]
           ELSE LET s2 == clearReconnectTimer(transition(s1, "reconnecting"))
                IN  [s2 EXCEPT !.reconnectTimer = "pending",
                               !.liveTimers = @ + 1]

\* mutant: a failed send is not put back on the queue
sendNow_noRequeue(s, message, outcome) ==
  IF ~s.socket \/ s.readyState # SOCKET_OPEN THEN s
  ELSE IF outcome = "ok" THEN [s EXCEPT !.sent = Append(@, message)]
  ELSE IF outcome = "closing"
       THEN [s EXCEPT !.sent = Append(@, message), !.readyState = SOCKET_CLOSING]
  ELSE scheduleReconnect(s, "Send failed. Reconnecting...")

sendNow(s, message, outcome) ==
  IF ~s.socket \/ s.readyState # SOCKET_OPEN THEN s
  ELSE IF outcome = "ok" THEN [s EXCEPT !.sent = Append(@, message)]
  ELSE IF outcome = "closing"
       THEN [s EXCEPT !.sent = Append(@, message), !.readyState = SOCKET_CLOSING]
  ELSE scheduleReconnect([s EXCEPT !.queue = Append(@, message)],
                         "Send failed. Reconnecting...")

openSocket(s, reconnecting, createOk) ==
  IF ~s.online THEN transition(s, "offline")
  ELSE LET s1 == safeCloseSocket(clearReconnectTimer(s))
           s2 == transition(s1, IF reconnecting THEN "reconnecting" ELSE "connecting")
       IN  IF createOk
           THEN [s2 EXCEPT !.socket = TRUE, !.readyState = SOCKET_CONNECTING,
                           !.created = @ + 1]
           ELSE scheduleReconnect(s2, "Unable to open WebSocket.")

start(s, createOk) ==
  LET s1 == [s EXCEPT !.manuallyStopped = FALSE]
  IN  IF ~s1.online THEN transition(s1, "offline")
      ELSE IF s1.socket /\ s1.readyState = SOCKET_OPEN THEN transition(s1, "connected")
      ELSE openSocket(s1, FALSE, createOk)

stop(s) ==
  LET s1 == [s EXCEPT !.manuallyStopped = TRUE]
      s2 == safeCloseSocket(clearHeartbeatTimer(clearReconnectTimer(s1)))
  IN  transition(s2, IF s2.online THEN "error" ELSE "offline")

retryNow(s, createOk) ==
  IF ~s.online THEN transition(s, "offline")
  ELSE openSocket(safeCloseSocket(clearReconnectTimer(s)), TRUE, createOk)

\* mutant: coming back online retries from offline only
setOnlineStatus_offlineOnly(s, b, createOk) ==
  LET s1 == [s EXCEPT !.online = b]
  IN  IF ~b
      THEN transition(safeCloseSocket(clearHeartbeatTimer(clearReconnectTimer(s1))),
                      "offline")
      ELSE IF s1.state = "offline"
           THEN retryNow(s1, createOk)
           ELSE s1

\* mutant: going offline leaves the socket open
setOnlineStatus_noClose(s, b, createOk) ==
  LET s1 == [s EXCEPT !.online = b]
  IN  IF ~b
      THEN transition(clearHeartbeatTimer(clearReconnectTimer(s1)), "offline")
      ELSE IF s1.state = "offline" \/ s1.state = "error"
           THEN retryNow(s1, createOk)
           ELSE s1

setOnlineStatus(s, b, createOk) ==
  LET s1 == [s EXCEPT !.online = b]
  IN  IF ~b
      THEN transition(safeCloseSocket(clearHeartbeatTimer(clearReconnectTimer(s1))),
                      "offline")
      ELSE IF s1.state = "offline" \/ s1.state = "error"
           THEN retryNow(s1, createOk)
           ELSE s1

\* mutant: on overflow the tail of the queue is cut, not its head
send_evictNewest(s, message, outcome) ==
  IF s.socket /\ s.readyState = SOCKET_OPEN THEN sendNow(s, message, outcome)
  ELSE LET q == Append(s.queue, message)
       IN  [s EXCEPT !.queue = IF Len(q) > maxQueueSize
                               THEN SubSeq(q, 1, maxQueueSize)
                               ELSE q]

send(s, message, outcome) ==
  IF s.socket /\ s.readyState = SOCKET_OPEN THEN sendNow(s, message, outcome)
  ELSE LET q == Append(s.queue, message)
       IN  [s EXCEPT !.queue = IF Len(q) > maxQueueSize
                               THEN SubSeq(q, Len(q) - maxQueueSize + 1, Len(q))
                               ELSE q]

\* mutant: a dead connection is rescheduled without closing the socket
heartbeat_noClose(s, hb, outcome) ==
  IF ~s.socket \/ s.readyState # SOCKET_OPEN THEN s
  ELSE IF s.age > deadConnectionMs
       THEN scheduleReconnect(s, "Connection timed out.")
  ELSE IF hb THEN sendNow(s, Heartbeat, outcome)
  ELSE s

\* the setInterval callback of startHeartbeat; hb: a heartbeat factory is
\* configured and returned a message
heartbeat(s, hb, outcome) ==
  IF ~s.socket \/ s.readyState # SOCKET_OPEN THEN s
  ELSE IF s.age > deadConnectionMs
       THEN scheduleReconnect(safeCloseSocket(s), "Connection timed out.")
  ELSE IF hb THEN sendNow(s, Heartbeat, outcome)
  ELSE s

\* socket.onopen up to the call of flushQueue; hello: the onOpen observer
\* calls send(hello) as the voice hook does
onopen(s, hello, outcome) ==
  LET s1 == transition([s EXCEPT !.attempt = 0, !.age = 0], "connected")
      s2 == startHeartbeat(s1)
  IN  IF hello THEN send(s2, Hello, outcome) ELSE s2

\* mutant: the loop shifts the message and does not send it
flushQueue_skip(s, outcome) == [s EXCEPT !.queue = Tail(@)]

\* one iteration of the while loop of flushQueue
flushQueue(s, outcome) ==
  sendNow([s EXCEPT !.queue = Tail(@)], Head(s.queue), outcome)

\* mutant: a frame that does not parse is treated as a failed connection
onmessage_reconnects(s, kind) ==
  LET s1 == [s EXCEPT !.age = 0]
  IN  IF kind = "invalid"
      THEN scheduleReconnect(
             [safeCloseSocket(s1) EXCEPT
                !.errs = Append(@, "Invalid message from voice server.")],
             "Connection closed.")
      ELSE s1

onmessage(s, kind) ==
  LET s1 == [s EXCEPT !.age = 0]
  IN  IF kind = "invalid"
      THEN [s1 EXCEPT !.errs = Append(@, "Invalid message from voice server.")]
      ELSE s1

onerror(s) == [s EXCEPT !.errs = Append(@, "WebSocket connection error.")]

onclose(s) ==
  LET s1 == [clearHeartbeatTimer(s) EXCEPT !.socket = FALSE,
                                            !.readyState = SOCKET_CLOSED]
  IN  IF s1.manuallyStopped THEN s1
      ELSE scheduleReconnect(s1, "Connection closed.")

\* ------------------------------------------------------------------------
\* Text of the voice hook.  A string is a sequence of characters over a
\* small alphabet: "a" a letter, " " whitespace, "." sentence punctuation
\* ([.!?]), "," other punctuation ([,;:]), ")" a closing quote or bracket.
\* null is written Null: the hook maps the empty string to null wherever it
\* returns text.
\* ------------------------------------------------------------------------
Null == <<>>

IsSpace(c) == c = " "
IsPunct(c) == c \in {".", ","}
IsTerminal(c) == c = "."
IsCloser(c) == c = ")"

\* .replace(/\s+/g, " ")
RECURSIVE CollapseSpaces(_)
CollapseSpaces(s) ==
  IF s = <<>> THEN <<>>
  ELSE IF Len(s) >= 2 /\ IsSpace(s[1]) /\ IsSpace(s[2]) THEN CollapseSpaces(Tail(s))
  ELSE <<s[1]>> \o CollapseSpaces(Tail(s))

\* .replace(/\s+([.,!?;:])/g, "$1") on a string whose whitespace runs are
\* single spaces
RECURSIVE DropSpaceBeforePunct(_)
DropSpaceBeforePunct(s) ==
  IF s = <<>> THEN <<>>
  ELSE IF Len(s) >= 2 /\ IsSpace(s[1]) /\ IsPunct(s[2]) THEN DropSpaceBeforePunct(Tail(s))
  ELSE <<s[1]>> \o DropSpaceBeforePunct(Tail(s))

RECURSIVE TrimLeft(_)
TrimLeft(s) ==
  IF s # <<>> /\ IsSpace(s[1]) THEN TrimLeft(Tail(s)) ELSE s

RECURSIVE TrimRight(_)
TrimRight(s) ==
  IF s # <<>> /\ IsSpace(s[Len(s)]) THEN TrimRight(SubSeq(s, 1, Len(s) - 1)) ELSE s

\* String.prototype.trim
Trim(s) == TrimRight(TrimLeft(s))

\* mutant: the text is joined and not normalised
normalizeGeneratedText_raw(parts) == parts

\* parts: the fragments already joined ("" separator)
normalizeGeneratedText(parts) == Trim(DropSpaceBeforePunct(CollapseSpaces(parts)))

\* /[.!?]["')\]]?\s*$/.test(text)
hasSentenceEnding(text) ==
  LET body == TrimRight(text)
  IN  /\ body # <<>>
      /\ \/ IsTerminal(body[Len(body)])
         \/ /\ IsCloser(body[Len(body)])
            /\ Len(body) >= 2
            /\ IsTerminal(body[Len(body) - 1])

\* text_out payloads the server may send (the hook ignores an empty one)
Fragments ==
  {<<"a">>, <<"a", ".">>, <<" ", "a", " ", ".">>, <<".", ")", " ">>}

\* audio_out frames: n decoded samples of mean absolute amplitude abs
FrameKinds ==
  {[n |-> 0, abs |-> 0], [n |-> 2000, abs |-> 0], [n |-> 4000, abs |-> 200]}

\* results of the collaborators
Transcript == <<"a", "a">>
HttpQuestion == <<"a", "a", "a", ".">>
buildFallbackCoachText == <<"a", ",", "a", ".">>

\* options a caller passes
TurnOptions ==
  {[timeoutMs |-> 1000, silenceMs |-> 0],
   [timeoutMs |-> MaxPolls * PollMs, silenceMs |-> 300]}

\* server messages reach the hook while the loop sleeps, at these times
ArrivalGapMs == ArrivalGapPolls * PollMs

\* the hook after mounting.  sttEnabled: ENABLE_COACH_STT_FALLBACK as read by
\* the turn (TRUE until then); how: the way the loop ended; out: what the
\* loop returned; transcript, inTime: what the transcription race delivered;
\* nFragments, nFrames: server messages received since the turn began (before
\* it: since mounting); sends: calls of manager.send made by the turn
TurnNew ==
  [pc |-> "idle", sttEnabled |-> TRUE,
   conn |-> FALSE, ready |-> FALSE,
   timeoutMs |-> 0, elapsed |-> 0, lastSignalAt |-> -1,
   textParts |-> <<>>, textQueue |-> <<>>,
   audioOut |-> 0, lastAudio |-> 0, samples |-> 0, absTotal |-> 0,
   nFragments |-> 0, nFrames |-> 0, sends |-> 0, how |-> "none",
   out |-> [text |-> Null, audioSeen |-> FALSE],
   transcript |-> Null, inTime |-> FALSE,
   result |-> [text |-> Null, usedVoice |-> FALSE]]

\* ------------------------------------------------------------------------
\* State after construction (field initialisers of the class); lastMessageAt
\* is 0, so the age of the last inbound message starts beyond any threshold.
\* ------------------------------------------------------------------------
BkNone ==
  [attempt |-> 0,
   options |-> [baseDelayMs |-> 0, maxDelayMs |-> 0, jitterRatio |-> 0, random |-> 0],
   delay |-> 0]

InitManager ==
  /\ state = "connecting"
  /\ attempt = 0
  /\ queue = <<>>
  /\ reconnectTimer = "null"
  /\ liveTimers = 0
  /\ heartbeatTimer = FALSE
  /\ manuallyStopped = FALSE
  /\ online = TRUE
  /\ socket = FALSE
  /\ readyState = SOCKET_CLOSED
  /\ age = MaxAge
  /\ nextMsg = 1
  /\ pc = "idle"
  /\ lastOp = "new"
  /\ notes = <<>>
  /\ errs = <<>>
  /\ sent = <<>>
  /\ created = 0
  /\ flushSnap = <<>>
  /\ scen = "fresh"
  /\ scenK = 0

Init == InitManager /\ bk = BkNone /\ turn = TurnNew

\* how many times message m is in queue q
Count(q, m) == Cardinality({i \in 1 .. Len(q) : q[i] = m})

\* the handler leaves the manager in s; counters stay within the explored range
Commit(s) ==
  /\ s.attempt <= AttemptCap
  /\ Len(s.queue) <= MaxQueueLen
  /\ Count(s.queue, Heartbeat) <= MaxRequeued
  /\ Count(s.queue, Hello) <= MaxRequeued
  /\ state' = s.state
  /\ attempt' = s.attempt
  /\ queue' = s.queue
  /\ reconnectTimer' = s.reconnectTimer
  /\ liveTimers' = s.liveTimers
  /\ heartbeatTimer' = s.heartbeatTimer
  /\ manuallyStopped' = s.manuallyStopped
  /\ online' = s.online
  /\ socket' = s.socket
  /\ readyState' = s.readyState
  /\ age' = s.age
  /\ notes' = s.notes
  /\ errs' = s.errs
  /\ sent' = s.sent
  /\ created' = s.created

\* a handler other than socket.onopen ran to completion
Done(op) ==
  /\ pc' = "idle"
  /\ lastOp' = op
  /\ flushSnap' = <<>>
  /\ UNCHANGED <<bk, turn>>

ScenOff == scen' = "off" /\ scenK' = 0

\* inputs that the handler can observe in the current state
IsOpen == socket /\ readyState = SOCKET_OPEN
CreateResults == IF online THEN BOOLEAN ELSE {TRUE}
SendResults(sends) == IF sends THEN SendOutcomes ELSE {"ok"}

Start ==
  /\ pc = "idle"
  /\ \E createOk \in (IF IsOpen THEN {TRUE} ELSE CreateResults) :
       /\ Commit(start(Begin, createOk))
       /\ IF scen = "fresh" /\ createOk /\ queue # <<>> /\ nextMsg - 1 <= maxQueueSize
          THEN scen' = "started" /\ scenK' = Len(queue)
          ELSE ScenOff
  /\ Done("start")
  /\ UNCHANGED nextMsg

Stop ==
  /\ pc = "idle"
  /\ Commit(stop(Begin))
  /\ Done("stop")
  /\ ScenOff
  /\ UNCHANGED nextMsg

RetryNow ==
  /\ pc = "idle"
  /\ \E createOk \in CreateResults : Commit(retryNow(Begin, createOk))
  /\ Done("retryNow")
  /\ ScenOff
  /\ UNCHANGED nextMsg

SetOnlineStatus ==
  /\ pc = "idle"
  /\ \E b \in BOOLEAN :
       \E createOk \in (IF b /\ state \in {"offline", "error"} THEN BOOLEAN ELSE {TRUE}) :
          Commit(setOnlineStatus(Begin, b, createOk))
  /\ Done("setOnlineStatus")
  /\ ScenOff
  /\ UNCHANGED nextMsg

Send ==
  /\ pc = "idle"
  /\ nextMsg <= MaxSends
  /\ \E outcome \in SendResults(IsOpen) : Commit(send(Begin, nextMsg, outcome))
  /\ nextMsg' = nextMsg + 1
  /\ Done("send")
  /\ IF scen = "fresh" THEN UNCHANGED <<scen, scenK>> ELSE ScenOff

HeartbeatTick ==
  /\ pc = "idle"
  /\ heartbeatTimer
  /\ \E hb \in (IF IsOpen /\ age <= deadConnectionMs THEN BOOLEAN ELSE {FALSE}) :
       \E outcome \in SendResults(hb) : Commit(heartbeat(Begin, hb, outcome))
  /\ Done("heartbeat")
  /\ ScenOff
  /\ UNCHANGED nextMsg

\* the setTimeout callback of scheduleReconnect
ReconnectTimerFires ==
  /\ pc = "idle"
  /\ liveTimers > 0
  /\ \E createOk \in CreateResults :
       Commit(openSocket([Begin EXCEPT !.liveTimers = @ - 1,
                                       !.reconnectTimer =
                                          IF @ = "pending" THEN "fired" ELSE @],
                         TRUE, createOk))
  /\ Done("reconnectTimer")
  /\ ScenOff
  /\ UNCHANGED nextMsg

\* the socket reports open: onopen runs, then flushQueue is entered
SocketOpens ==
  /\ pc = "idle"
  /\ socket /\ readyState = SOCKET_CONNECTING
  /\ \E hello \in BOOLEAN : \E outcome \in SendResults(hello) :
       LET s == onopen([Begin EXCEPT !.readyState = SOCKET_OPEN], hello, outcome)
       IN  /\ Commit(s)
           /\ pc' = IF s.socket /\ s.readyState = SOCKET_OPEN /\ s.queue # <<>>
                    THEN "flush" ELSE "idle"
           /\ IF scen = "started" /\ ~hello
              THEN UNCHANGED scenK /\ scen' = "opened"
              ELSE IF scen = "started" /\ outcome = "ok"
                   THEN UNCHANGED scenK /\ scen' = "openedHello"
                   ELSE ScenOff
  /\ lastOp' = "onopen"
  /\ flushSnap' = queue
  /\ UNCHANGED <<nextMsg, bk, turn>>

FlushStep ==
  /\ pc = "flush"
  /\ \E outcome \in SendResults(IsOpen) :
       LET s == flushQueue(Cur, outcome)
       IN  /\ Commit(s)
           /\ pc' = IF s.queue = <<>> THEN "idle" ELSE "flush"
           /\ IF scen \in {"opened", "openedHello"} /\ outcome = "ok"
              THEN UNCHANGED <<scen, scenK>>
              ELSE ScenOff
  /\ UNCHANGED <<lastOp, flushSnap, nextMsg, bk, turn>>

SocketMessage ==
  /\ pc = "idle"
  /\ socket /\ readyState \in {SOCKET_OPEN, SOCKET_CLOSING}
  /\ \E kind \in {"parsed", "invalid"} : Commit(onmessage(Begin, kind))
  /\ Done("onmessage")
  /\ ScenOff
  /\ UNCHANGED nextMsg

SocketError ==
  /\ pc = "idle"
  /\ socket
  /\ Commit(onerror(Begin))
  /\ Done("onerror")
  /\ ScenOff
  /\ UNCHANGED nextMsg

SocketCloses ==
  /\ pc = "idle"
  /\ socket
  /\ Commit(onclose(Begin))
  /\ Done("onclose")
  /\ ScenOff
  /\ UNCHANGED nextMsg

\* the peer starts the closing handshake: readyState leaves OPEN before the
\* close event is delivered
SocketClosing ==
  /\ pc = "idle"
  /\ socket /\ readyState = SOCKET_OPEN
  /\ readyState' = SOCKET_CLOSING
  /\ lastOp' = "closing"
  /\ UNCHANGED <<state, attempt, queue, reconnectTimer, liveTimers, heartbeatTimer,
                 manuallyStopped, online, socket, age, nextMsg, pc, notes, errs,
                 sent, created, flushSnap, scen, scenK, bk, turn>>

\* time passes (Date.now() - lastMessageAt grows)
Tick ==
  /\ pc = "idle"
  /\ age < MaxAge
  /\ age' = age + TickMs
  /\ lastOp' = "tick"
  /\ UNCHANGED <<state, attempt, queue, reconnectTimer, liveTimers, heartbeatTimer,
                 manuallyStopped, online, socket, readyState, nextMsg, pc, notes,
                 errs, sent, created, flushSnap, scen, scenK, bk, turn>>

Next ==
  \/ Start
  \/ Stop
  \/ RetryNow
  \/ SetOnlineStatus
  \/ Send
  \/ HeartbeatTick
  \/ ReconnectTimerFires
  \/ SocketOpens
  \/ FlushStep
  \/ SocketMessage
  \/ SocketError
  \/ SocketCloses
  \/ SocketClosing
  \/ Tick

Spec == Init /\ [][Next]_vars

\* The manager under fair scheduling: a timer that was set and not cleared
\* fires (setTimeout), and the loop of flushQueue, once entered, runs on.
\* The owner submits at most MaxLiveSends messages.
SendLive == nextMsg <= MaxLiveSends /\ Send

NextLive ==
  \/ Start
  \/ Stop
  \/ RetryNow
  \/ SetOnlineStatus
  \/ SendLive
  \/ HeartbeatTick
  \/ ReconnectTimerFires
  \/ SocketOpens
  \/ FlushStep
  \/ SocketMessage
  \/ SocketError
  \/ SocketCloses
  \/ SocketClosing
  \/ Tick

SpecLive ==
  Init /\ [][NextLive]_vars /\ WF_vars(ReconnectTimerFires) /\ WF_vars(FlushStep)

\* The flush loop without a bound on its iterations.  Past maxAttempts the
\* manager no longer looks at the value of the attempt counter, so the
\* counter is kept at AttemptCap once it is there, and of the reports of the
\* running handler the last one is kept.
FlushIteration ==
  /\ pc = "flush"
  /\ \E outcome \in SendResults(IsOpen) :
       LET s == flushQueue(Cur, outcome)
       IN  /\ Commit([s EXCEPT !.attempt = Min(@, AttemptCap),
                               !.errs = LastN(@, 1)])
           /\ pc' = IF s.queue = <<>> THEN "idle" ELSE "flush"
  /\ ScenOff
  /\ UNCHANGED <<lastOp, flushSnap, nextMsg, bk, turn>>

NextFlush ==
  \/ Start
  \/ Stop
  \/ RetryNow
  \/ SetOnlineStatus
  \/ SendLive
  \/ HeartbeatTick
  \/ ReconnectTimerFires
  \/ SocketOpens
  \/ FlushIteration
  \/ SocketMessage
  \/ SocketError
  \/ SocketCloses
  \/ SocketClosing
  \/ Tick

\* flushQueue is a synchronous loop: once entered it keeps running
SpecFlush == Init /\ [][NextFlush]_vars /\ WF_vars(FlushIteration)

\* ------------------------------------------------------------------------
\* The backoff calculator on its own: the inputs are drawn in the initial
\* state and one step applies the function.
\* ------------------------------------------------------------------------
BkOptions ==
  [baseDelayMs : {1, 500, 600}, maxDelayMs : {1, 3000, 10000},
   jitterRatio : {0, 20, 25}, random : 0 .. (RandomDen - 1)]

InitBackoff ==
  /\ InitManager
  /\ bk \in [attempt : 1 .. MaxBkAttempt, options : BkOptions, delay : {0}]
  /\ turn = TurnNew

ComputeBackoff ==
  /\ bk.delay = 0
  /\ bk' = [bk EXCEPT !.delay = calculateBackoffDelay(bk.attempt, bk.options)]
  /\ UNCHANGED <<state, attempt, queue, reconnectTimer, liveTimers, heartbeatTimer,
                 manuallyStopped, online, socket, readyState, age, nextMsg, pc,
                 lastOp, notes, errs, sent, created, flushSnap, scen, scenK,
                 turn>>

NextBackoff == ComputeBackoff

SpecBackoff == InitBackoff /\ [][NextBackoff]_vars

\* ------------------------------------------------------------------------
\* Turn coordinator of the voice hook: requestCoachTurn and the polling loop
\* waitForCoachOutput.  turn.elapsed is Date.now() - startedAt; the loop
\* sleeps PollMs between iterations and server messages, state changes and
\* disconnect() run while it sleeps.  The continuation of requestCoachTurn
\* after the loop returns runs in the same step as the last iteration.
\* ------------------------------------------------------------------------

\* calls of manager.send made by sendContext, sendSilence and endUtterance
turnSends(silenceMs) ==
  1 + (IF silenceMs > 0
       THEN Max(1, (silenceMs + SilenceChunkMs - 1) \div SilenceChunkMs)
       ELSE 0) + 1

\* meanAbsPcm16(coachPcmChunksRef.current) < 80
quietAudio(w) == w.samples = 0 \/ w.absTotal < MinMeanAbs * w.samples

returnTurn(w, text, usedVoice) ==
  [w EXCEPT !.pc = "returned", !.result = [text |-> text, usedVoice |-> usedVoice]]

\* the tail of the audioSeen branch: no text could be recovered
returnNoText(w) == returnTurn(w, Null, ~quietAudio(w))

\* mutant: signals that keep arriving extend the deadline
loopRuns_whileSignals(w) ==
  \/ w.elapsed < w.timeoutMs
  \/ w.lastSignalAt # -1 /\ w.elapsed - w.lastSignalAt < STREAM_SETTLE_MS

\* the condition of the while loop: Date.now() - startedAt < timeoutMs
loopRuns(w) == w.elapsed < w.timeoutMs

\* mutant: the audio counter is compared with >=
exitOutput_audioGe(w) ==
  LET text == normalizeGeneratedText(w.textParts)
  IN  [text |-> text, audioSeen |-> w.audioOut >= 0 \/ text # Null]

\* the value returned when the loop ends by disconnection or by timeout
\* (text || null)
exitOutput(w) ==
  LET text == normalizeGeneratedText(w.textParts)
  IN  [text |-> text, audioSeen |-> w.audioOut > 0 \/ text # Null]

\* textQueueRef drained into textParts: the fragments joined in order
RECURSIVE JoinAll(_)
JoinAll(q) == IF q = <<>> THEN <<>> ELSE Head(q) \o JoinAll(Tail(q))

\* the loop body up to the settle test: text fragments, then audio frames
drainSignals(w) ==
  LET w1 == [w EXCEPT !.textParts = @ \o JoinAll(w.textQueue),
                      !.textQueue = <<>>,
                      !.lastSignalAt = IF w.textQueue # <<>> THEN w.elapsed ELSE @]
  IN  IF w1.audioOut > w1.lastAudio
      THEN [w1 EXCEPT !.lastAudio = w1.audioOut, !.lastSignalAt = w1.elapsed]
      ELSE w1

\* mutant: the soft rule does not look at the end of the text
settled_noBoundary(w) ==
  LET quietMs == w.elapsed - w.lastSignalAt
      text == normalizeGeneratedText(w.textParts)
  IN  /\ w.lastSignalAt # -1
      /\ \/ quietMs >= STREAM_HARD_SETTLE_MS
         \/ quietMs >= STREAM_SETTLE_MS /\ Len(text) > 0

\* the settle test of the loop body
settled(w) ==
  LET quietMs == w.elapsed - w.lastSignalAt
      text == normalizeGeneratedText(w.textParts)
  IN  /\ w.lastSignalAt # -1
      /\ \/ quietMs >= STREAM_HARD_SETTLE_MS
         \/ quietMs >= STREAM_SETTLE_MS /\ Len(text) > 0 /\ hasSentenceEnding(text)

\* mutant: the queue is drained before the connection state is looked at
waitForCoachOutput_drainFirst(w) ==
  IF ~loopRuns(w)
  THEN [w EXCEPT !.pc = "waited", !.how = "timeout", !.out = exitOutput(w)]
  ELSE LET w1 == drainSignals(w)
           text == normalizeGeneratedText(w1.textParts)
       IN  IF ~w.conn
           THEN [w1 EXCEPT !.pc = "waited", !.how = "disconnected",
                           !.out = exitOutput(w1)]
           ELSE IF settled(w1)
           THEN [w1 EXCEPT !.pc = "waited", !.how = "settled",
                           !.out = [text |-> text,
                                    audioSeen |-> w1.lastAudio > 0 \/ text # Null]]
           ELSE [w1 EXCEPT !.elapsed = @ + PollMs]

\* one evaluation of the loop condition of waitForCoachOutput and, when it
\* holds, one iteration of the body followed by the sleep
waitForCoachOutput(w) ==
  IF ~loopRuns(w)
  THEN [w EXCEPT !.pc = "waited", !.how = "timeout", !.out = exitOutput(w)]
  ELSE IF ~w.conn
  THEN [w EXCEPT !.pc = "waited", !.how = "disconnected", !.out = exitOutput(w)]
  ELSE LET w1 == drainSignals(w)
           text == normalizeGeneratedText(w1.textParts)
       IN  IF settled(w1)
           THEN [w1 EXCEPT !.pc = "waited", !.how = "settled",
                           !.out = [text |-> text,
                                    audioSeen |-> w1.lastAudio > 0 \/ text # Null]]
           ELSE [w1 EXCEPT !.elapsed = @ + PollMs]

\* requestCoachTurn from the return of waitForCoachOutput to its next await;
\* sttEnabled: the value of ENABLE_COACH_STT_FALLBACK, read here only
afterWait(w, sttEnabled) ==
  LET text == IF Trim(w.out.text) # <<>> THEN w.out.text ELSE Null
  IN  IF text # Null THEN returnTurn(w, text, TRUE)
      ELSE IF w.out.audioSeen
           THEN LET w1 == [w EXCEPT !.sttEnabled = sttEnabled]
                IN  IF sttEnabled /\ w1.samples >= MinSttSamples
                    THEN [w1 EXCEPT !.pc = "stt"]
                    ELSE returnNoText(w1)
      ELSE [w EXCEPT !.pc = "fallback"]

\* mutant: the recovered transcript is dropped
afterTranscription_drop(w, transcript, latencyMs) ==
  returnNoText([w EXCEPT !.transcript = transcript,
                         !.inTime = latencyMs < COACH_STT_TIMEOUT_MS])

\* requestCoachTurn after Promise.race([transcribeAudioBlob, timeout]):
\* the transcription settles with transcript after latencyMs and the timer
\* resolves with an empty transcript after COACH_STT_TIMEOUT_MS
afterTranscription(w, transcript, latencyMs) ==
  LET inTime == latencyMs < COACH_STT_TIMEOUT_MS
      recovered == IF inTime THEN transcript ELSE Null
      w1 == [w EXCEPT !.transcript = transcript, !.inTime = inTime]
  IN  IF recovered # Null THEN returnTurn(w1, recovered, TRUE) ELSE returnNoText(w1)

\* mutant: the canned sentence is missing
afterFallbackQuestion_noCanned(w, fallbackText) == returnTurn(w, fallbackText, FALSE)

\* requestCoachTurn after fetchFallbackQuestion (null when the request fails)
afterFallbackQuestion(w, fallbackText) ==
  IF fallbackText # Null THEN returnTurn(w, fallbackText, FALSE)
  ELSE returnTurn(w, buildFallbackCoachText, FALSE)

\* requestCoachTurn up to its first call of waitForCoachOutput or of
\* fetchFallbackQuestion; audioOut counts from audioStartCount
requestCoachTurn(w, timeoutMs, silenceMs) ==
  IF w.conn /\ w.ready
  THEN [w EXCEPT !.pc = "waiting", !.timeoutMs = timeoutMs, !.elapsed = 0,
                 !.lastSignalAt = -1, !.textParts = <<>>, !.textQueue = <<>>,
                 !.audioOut = 0, !.lastAudio = 0, !.samples = 0, !.absTotal = 0,
                 !.nFragments = 0, !.nFrames = 0,
                 !.sends = turnSends(silenceMs)]
  ELSE [w EXCEPT !.pc = "fallback", !.timeoutMs = timeoutMs]

\* handleServerMessage: text_out
onTextOut(w, fragment) ==
  [w EXCEPT !.textQueue = Append(@, fragment), !.nFragments = @ + 1]

\* handleServerMessage: audio_out
onAudioOut(w, frame) ==
  [w EXCEPT !.audioOut = @ + 1, !.nFrames = @ + 1,
            !.samples = @ + frame.n, !.absTotal = @ + frame.n * frame.abs]

\* disconnect() of the hook
disconnect(w) ==
  [w EXCEPT !.textQueue = <<>>, !.samples = 0, !.absTotal = 0,
            !.ready = FALSE, !.conn = FALSE]

InitTurn == InitManager /\ bk = BkNone /\ turn = TurnNew

\* a step of the hook: the manager's fields are not touched
TurnStep(op, w) ==
  /\ turn' = w
  /\ lastOp' = op
  /\ UNCHANGED <<state, attempt, queue, reconnectTimer, liveTimers, heartbeatTimer,
                 manuallyStopped, online, socket, readyState, age, nextMsg, pc,
                 notes, errs, sent, created, flushSnap, scen, scenK, bk>>

RequestCoachTurn ==
  /\ turn.pc = "idle"
  /\ \E options \in TurnOptions :
       TurnStep("requestCoachTurn",
                requestCoachTurn(turn, options.timeoutMs, options.silenceMs))

Poll ==
  /\ turn.pc = "waiting"
  /\ LET w == waitForCoachOutput(turn)
     IN  IF w.pc = "waited"
         THEN \E sttEnabled \in (IF Trim(w.out.text) = <<>> /\ w.out.audioSeen
                                  THEN BOOLEAN ELSE {TRUE}) :
                TurnStep("poll", afterWait(w, sttEnabled))
         ELSE TurnStep("poll", w)

TranscriptionSettles ==
  /\ turn.pc = "stt"
  /\ \E transcript \in {Null, Transcript} : \E latencyMs \in {1000, 5000} :
       TurnStep("transcribed", afterTranscription(turn, transcript, latencyMs))

FallbackQuestionSettles ==
  /\ turn.pc = "fallback"
  /\ \E fallbackText \in {Null, HttpQuestion} :
       TurnStep("fetched", afterFallbackQuestion(turn, fallbackText))

\* a server message can be delivered now
CanArrive ==
  /\ turn.pc # "returned"
  /\ turn.conn
  /\ turn.pc = "waiting" => turn.elapsed % ArrivalGapMs = 0

TextOut ==
  /\ CanArrive
  /\ turn.nFragments < MaxFragments
  /\ \E fragment \in Fragments : TurnStep("text_out", onTextOut(turn, fragment))

AudioOut ==
  /\ CanArrive
  /\ turn.nFrames < MaxFrames
  /\ \E frame \in FrameKinds : TurnStep("audio_out", onAudioOut(turn, frame))

\* onStateChange: connected (after onOpen cleared serverReady) or not
StateChanges ==
  /\ turn.pc # "returned"
  /\ TurnStep("stateChange",
              IF turn.conn THEN [turn EXCEPT !.conn = FALSE]
              ELSE [turn EXCEPT !.conn = TRUE, !.ready = FALSE])

\* handleServerMessage: ready
ServerReady ==
  /\ turn.pc # "returned"
  /\ turn.conn /\ ~turn.ready
  /\ TurnStep("ready", [turn EXCEPT !.ready = TRUE])

Disconnect ==
  /\ turn.pc # "returned"
  /\ TurnStep("disconnect", disconnect(turn))

NextTurn ==
  \/ RequestCoachTurn
  \/ Poll
  \/ TranscriptionSettles
  \/ FallbackQuestionSettles
  \/ TextOut
  \/ AudioOut
  \/ StateChanges
  \/ ServerReady
  \/ Disconnect

SpecTurn == InitTurn /\ [][NextTurn]_vars

TypeOK ==
  /\ state \in ConnectionState
  /\ attempt \in 0 .. AttemptCap
  /\ reconnectTimer \in {"null", "pending", "fired"}
  /\ liveTimers \in 0 .. 1
  /\ readyState \in SOCKET_CONNECTING .. SOCKET_CLOSED
  /\ pc \in {"idle", "flush"}
  /\ pc = "flush" => queue # <<>>
  /\ socket => online

\* ------------------------------------------------------------------------
\* Properties
\* ------------------------------------------------------------------------

\* the step is the handler named op
Ran(op) == lastOp' = op

\* the step is a call of send(nextMsg)
SendCalled == nextMsg' = nextMsg + 1

\* the onOpen observer of the handler that just ran submitted no hello
NoHelloIssued ==
  Count(sent, Hello) + Count(queue, Hello) <= Count(flushSnap, Hello)

\* C1: a send() issued while no socket is open leaves at most maxQueueSize
\* messages queued: the queue is the old queue followed by the new message,
\* cut from the front (oldest first) down to maxQueueSize, so the newest
\* message is kept and the survivors keep their order.
C1_QueueBounded ==
  [][(SendCalled /\ ~IsOpen)
       => /\ Len(queue') <= maxQueueSize
          /\ queue' = LastN(Append(queue, nextMsg), maxQueueSize)
          /\ Last(queue') = nextMsg]_vars

\* C1 witness: only send() was called, more often than the queue holds; the
\* first message is gone and the newest is last
C1_Witness ==
  /\ scen = "fresh"
  /\ lastOp = "send"
  /\ nextMsg - 1 > maxQueueSize
  /\ Len(queue) = maxQueueSize
  /\ Head(queue) = nextMsg - maxQueueSize
  /\ Last(queue) = nextMsg - 1

\* C2 (as claimed): when the socket-open handler has run, every message that
\* was queued when the socket opened was accepted by socket.send exactly
\* once, in queue order, and the queue is empty.
C2_FlushDeliversAll ==
  (lastOp = "onopen" /\ pc = "idle" /\ NoHelloIssued)
    => (queue = <<>> /\ sent = flushSnap)

\* a terminal report: onError(reason + " Max retries reached.")
TerminalReports(e) == SelectSeq(e, LAMBDA r : r \in TerminalReasons)

\* C3 (as claimed): once the attempts are exhausted and the manager is in
\* error, nothing but a call by the owner (start, retryNow, stop,
\* setOnlineStatus) creates a socket, no reconnect timer fires and the
\* terminal failure is not reported again.
C3_ExhaustionIsTerminal ==
  [][(attempt > maxAttempts /\ state = "error"
        /\ lastOp' \notin {"start", "retryNow", "stop", "setOnlineStatus"})
       => /\ created' = 0
          /\ ~Ran("reconnectTimer")
          /\ (errs' # errs => TerminalReports(errs') = <<>>)]_vars

\* a heartbeat tick finds the connection dead
DeadLinkDetected ==
  /\ Ran("heartbeat")
  /\ state = "connected"
  /\ IsOpen
  /\ age > deadConnectionMs

\* what one scheduled reconnect attempt looks like after the step
OneReconnectScheduled ==
  /\ ~socket'
  /\ attempt' = attempt + 1
  /\ state' = "reconnecting"
  /\ reconnectTimer' = "pending"
  /\ liveTimers' = 1

\* a heartbeat tick that finds no socket does nothing
IdleTick ==
  (Ran("heartbeat") /\ ~socket)
    => /\ UNCHANGED <<state, attempt, queue, reconnectTimer, liveTimers, socket>>
       /\ sent' = <<>>
       /\ created' = 0

C5_NoDuplicateNotification ==
  \A i \in 1 .. (Len(notes) - 1) : notes[i] # notes[i + 1]

\* C5 witness: one handler emitted several notifications after an earlier one
C5_Witness == Len(notes) >= 3 /\ Last(notes) = state

\* the manager as stop() leaves it
StoppedQuiet ==
  /\ manuallyStopped
  /\ ~socket
  /\ liveTimers = 0
  /\ state = IF online THEN "error" ELSE "offline"

\* C6 (as claimed): from the state stop() leaves, socket events, timers,
\* send() and online-status changes create no socket, leave no reconnect
\* timer pending and keep the state error (online) or offline.
C6_StoppedStaysStopped ==
  [][(StoppedQuiet
        /\ lastOp' \in {"setOnlineStatus", "send", "onopen", "onclose", "onerror",
                        "onmessage", "heartbeat", "reconnectTimer", "tick"})
       => /\ created' = 0
          /\ liveTimers' = 0
          /\ state' = IF online' THEN "error" ELSE "offline"]_vars

\* maxDelayMs * (1 + jitterRatio), over JitterDen
BkUpper == bk.options.maxDelayMs * (JitterDen + bk.options.jitterRatio)

\* C7 (as claimed): 250 <= delay <= maxDelayMs * (1 + jitterRatio).
C7_BackoffWithinBounds ==
  bk.delay # 0 => (250 <= bk.delay /\ bk.delay * JitterDen <= BkUpper)

\* C7 (amended): 250 <= delay, and delay is at most the larger of 250 and
\* maxDelayMs * (1 + jitterRatio) rounded to the millisecond.
C7_BackoffWithinBoundsOrFloor ==
  bk.delay # 0
    => /\ 250 <= bk.delay
       /\ bk.delay <= Max(250, (2 * BkUpper + JitterDen) \div (2 * JitterDen))

\* C7 witness: a delay that the jitter pushed above the cap
C7_Witness ==
  /\ bk.delay > bk.options.maxDelayMs
  /\ bk.delay > 250
  /\ bk.options.jitterRatio > 0

\* C8: with the random source at the midpoint the delay is
\* min(baseDelayMs * 2^(attempt-1), maxDelayMs), floored at 250; base 500,
\* max 3000, jitter 0.2, attempt 4 gives 3000.
C8_MidpointDelay ==
  (bk.delay # 0 /\ 2 * bk.options.random = RandomDen)
    => /\ bk.delay = Max(250, Min(bk.options.baseDelayMs * Pow2(bk.attempt - 1),
                                  bk.options.maxDelayMs))
       /\ (bk.attempt = 1
             => bk.delay = Max(250, Min(bk.options.baseDelayMs, bk.options.maxDelayMs)))
       /\ ((bk.attempt = 4 /\ bk.options.baseDelayMs = 500
             /\ bk.options.maxDelayMs = 3000 /\ bk.options.jitterRatio = 20)
            => bk.delay = 3000)

\* C8 witness: the scenario of the test has been computed
C8_Witness ==
  /\ bk.attempt = 4
  /\ bk.options = [baseDelayMs |-> 500, maxDelayMs |-> 3000,
                   jitterRatio |-> 20, random |-> 2]
  /\ bk.delay = 3000

\* C9: a new manager with k queued messages that is started, whose socket
\* opens and accepts every frame (no other call, no hello from an onOpen
\* observer): connecting after start(); after the open handler the queue is
\* empty, k frames were sent and the one notification is connected.
C9_QueuedThenStartThenOpen ==
  /\ scen = "started"
       => /\ state = "connecting"
          /\ notes = <<>>
          /\ Len(queue) = scenK
          /\ socket /\ readyState = SOCKET_CONNECTING
  /\ (scen = "opened" /\ pc = "idle")
       => /\ queue = <<>>
          /\ Len(sent) = scenK
          /\ sent = flushSnap
          /\ state = "connected"
          /\ notes = <<"connected">>

\* C9 witness: the scenario ran to its end with as many messages as fit
C9_Witness ==
  /\ scen = "opened"
  /\ pc = "idle"
  /\ lastOp = "onopen"
  /\ scenK = maxQueueSize
  /\ Len(sent) = maxQueueSize
  /\ queue = <<>>

\* send(nextMsg) ran with an open socket and socket.send did not accept it
SendThrew == SendCalled /\ IsOpen /\ sent' = <<>>

C11_WireOrderIsSendOrder ==
  scen \in {"opened", "openedHello"}
    => \A i, j \in 1 .. Len(sent) : i < j => sent[i] < sent[j]

\* C19 (as claimed): the outbound queue never holds more than maxQueueSize
\* messages.
C19_QueueNeverExceedsCapacity == Len(queue) <= maxQueueSize

\* the step handed message m to the socket (socket.send accepted it)
Handed(m) == Count(sent', m) > (IF pc = "flush" THEN Count(sent, m) ELSE 0)

\* the step is a send() that evicts from a full queue
CapacityEviction == SendCalled /\ ~IsOpen /\ Len(queue) >= maxQueueSize

\* C20 (as claimed): a message leaves the queue only in a step that hands it
\* to the socket or in a send() that evicts for capacity.
C20_QueueLosesNothing ==
  [][\A m \in 1 .. Heartbeat :
       Count(queue', m) < Count(queue, m) => (Handed(m) \/ CapacityEviction)]_vars

\* the close handler ran for a manager that is online, not stopped and whose
\* attempts are not exhausted
UnexpectedClose ==
  /\ lastOp = "onclose"
  /\ online
  /\ ~manuallyStopped
  /\ attempt <= maxAttempts

\* the reopen timer fired and called createSocket: a new socket is
\* connecting, or createSocket threw and the next attempt is scheduled or
\* the attempts are exhausted
TimerReopened ==
  /\ lastOp = "reconnectTimer"
  /\ \/ socket /\ readyState = SOCKET_CONNECTING /\ created = 1
     \/ ~socket /\ state = "reconnecting" /\ liveTimers = 1
     \/ ~socket /\ state = "error" /\ attempt > maxAttempts

\* the owner called the manager
CallerActed == lastOp \in {"start", "stop", "retryNow", "setOnlineStatus"}

\* C12: after an unexpected close of an online, not stopped manager with
\* attempts left, the reopen timer eventually fires and calls createSocket
\* (a new socket, or the next scheduled attempt, or exhaustion), unless the
\* owner calls the manager first.
C12_CloseLeadsToReopen == UnexpectedClose ~> (TimerReopened \/ CallerActed)

\* C12 witness: the timer set by the close handler fired and a new socket is
\* connecting
C12_Witness ==
  /\ lastOp = "reconnectTimer"
  /\ state = "reconnecting"
  /\ notes = <<"reconnecting">>
  /\ socket /\ readyState = SOCKET_CONNECTING
  /\ created = 1
  /\ attempt = 1
  /\ liveTimers = 0

\* ---- turn coordinator ----

\* terminal punctuation, optionally followed by a closing quote or bracket
EndsOnSentenceBoundary(text) ==
  /\ text # <<>>
  /\ \/ IsTerminal(Last(text))
     \/ Len(text) >= 2 /\ IsCloser(Last(text)) /\ IsTerminal(text[Len(text) - 1])

\* the step is a poll tick taken while connected and before the timeout
PollTick ==
  /\ lastOp' = "poll"
  /\ turn.pc = "waiting"
  /\ turn.conn
  /\ turn.elapsed < turn.timeoutMs

\* a text fragment or an audio frame is waiting to be observed
NewSignal == turn.textQueue # <<>> \/ turn.audioOut > turn.lastAudio

\* the rule of the claim, on the state the tick leaves; the tick ran at
\* turn.elapsed
SettleRule ==
  LET quiet == turn.elapsed - turn'.lastSignalAt
      accumulated == normalizeGeneratedText(turn'.textParts)
  IN  /\ turn'.lastSignalAt # -1
      /\ \/ quiet >= STREAM_HARD_SETTLE_MS
         \/ /\ quiet >= STREAM_SETTLE_MS
            /\ accumulated # <<>>
            /\ EndsOnSentenceBoundary(accumulated)

\* C13: a poll tick taken while connected and before the timeout ends the
\* wait iff a signal has been observed and the quiet time has reached the
\* hard threshold, or the soft threshold with accumulated text that ends on
\* a sentence boundary; a tick that observes a new fragment or frame sets
\* the quiet time to zero, any other tick leaves the last-signal time alone.
C13_SettleRuleDecidesTick ==
  [][PollTick
       => /\ (turn'.pc # "waiting") <=> SettleRule
          /\ turn'.pc # "waiting" => turn'.how = "settled"
          /\ NewSignal => turn'.lastSignalAt = turn.elapsed
          /\ ~NewSignal => turn'.lastSignalAt = turn.lastSignalAt]_vars

\* quiet time at the moment the loop ended
QuietAtEnd == turn.elapsed - turn.lastSignalAt

\* C13 witness: a tick resolved by the soft rule, after an earlier fragment
\* without a sentence end had been joined by one that ends the sentence
C13_Witness ==
  /\ lastOp = "poll"
  /\ turn.how = "settled"
  /\ QuietAtEnd >= STREAM_SETTLE_MS
  /\ QuietAtEnd < STREAM_HARD_SETTLE_MS
  /\ turn.nFragments = 2
  /\ turn.textParts = <<"a", ".", ")", " ">>

\* the turn got one fragment that ends in a period and the loop resolved by
\* the soft rule
OneSentenceSettled ==
  /\ turn.pc = "returned"
  /\ turn.how = "settled"
  /\ turn.nFragments = 1
  /\ turn.textParts \in Fragments
  /\ Last(turn.textParts) = "."
  /\ QuietAtEnd >= STREAM_SETTLE_MS
  /\ QuietAtEnd < STREAM_HARD_SETTLE_MS

\* C14 (as claimed): such a turn returns exactly the fragment, usedVoice true.
C14_ExactFragmentReturned ==
  OneSentenceSettled => turn.result = [text |-> turn.textParts, usedVoice |-> TRUE]

\* the characters of s that are not whitespace
NoSpaces(s) == SelectSeq(s, LAMBDA c : ~IsSpace(c))

\* no whitespace at either end, no run of whitespace, none before punctuation
IsNormalised(s) ==
  /\ s # <<>> => ~IsSpace(s[1]) /\ ~IsSpace(Last(s))
  /\ \A i \in 1 .. (Len(s) - 1) :
       IsSpace(s[i]) => ~IsSpace(s[i + 1]) /\ ~IsPunct(s[i + 1])

\* C14 (amended): such a turn returns the fragment with its whitespace
\* normalised (the same characters apart from whitespace; trimmed, no
\* whitespace run, none before punctuation; the fragment itself when it is
\* already in that form), usedVoice true.
C14_NormalisedFragmentReturned ==
  OneSentenceSettled
    => /\ turn.result.usedVoice
       /\ NoSpaces(turn.result.text) = NoSpaces(turn.textParts)
       /\ IsNormalised(turn.result.text)
       /\ IsNormalised(turn.textParts) => turn.result.text = turn.textParts

\* C14 witness: the fragment " a ." came back as "a."
C14_Witness ==
  /\ OneSentenceSettled
  /\ turn.textParts = <<" ", "a", " ", ".">>
  /\ turn.result = [text |-> <<"a", ".">>, usedVoice |-> TRUE]

\* the loop ran into its timeout and no server message arrived in the turn
SilentTimeout ==
  /\ turn.how = "timeout"
  /\ turn.nFragments = 0
  /\ turn.nFrames = 0

\* C15: a turn without any text fragment or audio frame before the timeout
\* resolves with text null and no use of the channel; requestCoachTurn goes
\* on to the HTTP question and never flags the channel as used.
C15_SilentTurnResolvesNull ==
  SilentTimeout
    => /\ turn.out = [text |-> Null, audioSeen |-> FALSE]
       /\ turn.pc \in {"fallback", "returned"}
       /\ ~turn.result.usedVoice
       /\ turn.result.text \in {Null, HttpQuestion, buildFallbackCoachText}
       /\ turn.pc = "fallback" => turn.result.text = Null

\* C15 witness: the long timeout passed in silence
C15_Witness ==
  /\ lastOp = "poll"
  /\ SilentTimeout
  /\ turn.timeoutMs = MaxPolls * PollMs
  /\ turn.elapsed >= turn.timeoutMs
  /\ turn.pc = "fallback"

\* the loop ended on audio alone with a buffer worth transcribing
AudioOnlyResolved ==
  /\ lastOp = "poll"
  /\ turn.how # "none"
  /\ turn.nFragments = 0
  /\ turn.out = [text |-> Null, audioSeen |-> TRUE]
  /\ turn.samples >= MinSttSamples
  /\ turn.sttEnabled

\* C16: a turn that got audio frames and no text, with at least
\* MinSttSamples captured samples, asks for a transcription; when that
\* delivers non-empty text in time the turn returns it, usedVoice true.
C16_TranscriptReturned ==
  /\ AudioOnlyResolved => turn.pc = "stt"
  /\ (lastOp = "transcribed" /\ turn.inTime /\ turn.transcript # Null)
       => turn.result = [text |-> turn.transcript, usedVoice |-> TRUE]

\* C16 witness: an audio-only turn returned the transcript
C16_Witness ==
  /\ lastOp = "transcribed"
  /\ turn.nFragments = 0
  /\ turn.nFrames >= 1
  /\ turn.out.text = Null
  /\ turn.inTime
  /\ turn.result = [text |-> Transcript, usedVoice |-> TRUE]

\* C17: the wait loop is never past timeout + one poll interval, counted
\* from its start, and once its deadline has passed the next evaluation of
\* the loop condition ends it.
C17_WaitBoundedByTimeout ==
  [][/\ turn'.elapsed <= turn'.timeoutMs + PollMs
     /\ (lastOp' = "poll" /\ turn.pc = "waiting" /\ turn.elapsed >= turn.timeoutMs)
          => turn'.how = "timeout" /\ turn'.elapsed = turn.elapsed]_vars

\* C17 witness: signals kept resetting the quiet time until the loop gave up
\* after its deadline
C17_Witness ==
  /\ turn.how = "timeout"
  /\ turn.elapsed > turn.timeoutMs
  /\ turn.lastSignalAt # -1
  /\ QuietAtEnd < STREAM_SETTLE_MS
  /\ turn.nFragments + turn.nFrames = MaxFragments + MaxFrames

\* the turn was requested while the channel was not connected and ready
ChannelSkipped == turn.pc \in {"fallback", "returned"} /\ turn.how = "none"

\* C18: a turn requested while the channel is not connected and ready calls
\* manager.send not once and returns the HTTP question, or the canned
\* sentence when there is none, with usedVoice false.
C18_FallbackWithoutChannel ==
  ChannelSkipped
    => /\ turn.sends = 0
       /\ turn.pc = "returned"
            => /\ turn.result.text # Null
               /\ turn.result.text \in {HttpQuestion, buildFallbackCoachText}
               /\ ~turn.result.usedVoice

\* C18 witness: the HTTP request failed and the canned sentence was returned
C18_Witness ==
  /\ lastOp = "fetched"
  /\ ChannelSkipped
  /\ turn.result = [text |-> buildFallbackCoachText, usedVoice |-> FALSE]
  /\ turn.sends = 0

\* ---- reconnection, counters and timers of the manager ----

\* the step is the close or the error handler of the current socket, run
\* for a manager that is online and not stopped
CloseOrErrorEvent ==
  /\ lastOp' \in {"onclose", "onerror"}
  /\ online
  /\ ~manuallyStopped

\* C21 (as claimed): a close or error event of the current socket of an
\* online, not stopped manager increments the attempt counter and leaves the
\* manager in error (counter above maxAttempts) or in reconnecting with
\* exactly one reopen timer pending; never is more than one reopen timer
\* pending.
C21_CloseOrErrorCountsAttempt ==
  [][/\ CloseOrErrorEvent
          => /\ attempt' = attempt + 1
             /\ \/ attempt' > maxAttempts /\ state' = "error"
                \/ /\ attempt' <= maxAttempts
                   /\ state' = "reconnecting"
                   /\ reconnectTimer' = "pending"
                   /\ liveTimers' = 1
     /\ liveTimers' <= 1]_vars

\* the step called createSocket and it threw
OpenFailed ==
  /\ \/ lastOp' \in {"start", "retryNow", "reconnectTimer"}
     \/ lastOp' = "setOnlineStatus" /\ state \in {"offline", "error"}
  /\ online'
  /\ ~socket'
  /\ created' = 0

\* the step closed the connection: the close event of the current socket,
\* or the heartbeat tick that force-closes a dead link
ConnectionClosed ==
  \/ Ran("onclose")
  \/ Ran("heartbeat") /\ IsOpen /\ age > deadConnectionMs

\* the step is the open handler of the current socket
OpenEvent == Ran("onopen") /\ pc = "idle"

\* C22 (as claimed): the attempt counter is never negative; only the open
\* handler sets it to 0 (start, stop, retryNow and setOnlineStatus never
\* do); a step increments it, by one, exactly when a connection attempt
\* failed or a connection closed in that step.
C22_AttemptCountsAttempts ==
  [][/\ attempt' >= 0
     /\ (attempt' = 0 /\ attempt # 0) => OpenEvent
     /\ (OpenFailed \/ ConnectionClosed) => attempt' = attempt + 1
     /\ (attempt' # attempt /\ ~OpenEvent) => (OpenFailed \/ ConnectionClosed)]_vars

\* C23: while the network-availability flag is false the state is offline
\* and the handler that ran last (start, retryNow, send, stop, a timer or
\* socket callback) created no socket.
C23_OfflineWhileFlagFalse ==
  ~online => (state = "offline" /\ created = 0 /\ ~socket)

\* C23 witness: retryNow() was called while the flag was false, with a
\* message queued by a send() made after the socket had been closed
C23_Witness ==
  /\ ~online
  /\ lastOp = "retryNow"
  /\ state = "offline"
  /\ ~socket
  /\ queue # <<>>

\* createSocket was called in the step with no delay: the new socket is
\* connecting and no reopen timer is pending, or the call threw
OpenedAtOnce ==
  \/ /\ created' = 1
     /\ socket' /\ readyState' = SOCKET_CONNECTING
     /\ state' = "reconnecting"
     /\ liveTimers' = 0
  \/ /\ created' = 0
     /\ ~socket'
     /\ state' \in {"reconnecting", "error"}

\* C24: setOnlineStatus(false) leaves no socket, no reconnect timer, no
\* heartbeat timer and the state offline; setOnlineStatus(true) in offline or
\* error calls createSocket in the same step (no backoff delay), and in any
\* other state it changes nothing.
C24_OnlineStatusSwitch ==
  [][Ran("setOnlineStatus")
       => /\ ~online'
            => /\ ~socket'
               /\ reconnectTimer' = "null" /\ liveTimers' = 0
               /\ ~heartbeatTimer'
               /\ state' = "offline"
          /\ (online' /\ state \in {"offline", "error"}) => OpenedAtOnce
          /\ (online' /\ state \notin {"offline", "error"})
               => /\ UNCHANGED <<state, attempt, queue, reconnectTimer, liveTimers,
                                 heartbeatTimer, manuallyStopped, online, socket,
                                 readyState>>
                  /\ created' = 0 /\ sent' = <<>> /\ errs' = <<>>]_vars

\* C24 witness: the flag came back while the manager sat in error with its
\* attempts exhausted, and a new socket is connecting
C24_Witness ==
  /\ lastOp = "setOnlineStatus"
  /\ online
  /\ notes = <<"error", "reconnecting">>
  /\ attempt > maxAttempts
  /\ socket /\ readyState = SOCKET_CONNECTING
  /\ created = 1
  /\ liveTimers = 0

\* ---- turn coordinator: disconnection and the fallback cascade ----

\* the step is a poll tick that finds the connection state not connected
PollWhileDisconnected ==
  /\ lastOp' = "poll"
  /\ turn.pc = "waiting"
  /\ ~turn.conn

NullTextWithSignal ==
  /\ turn.pc = "returned"
  /\ turn.how # "none"
  /\ turn.out.text = Null
  /\ turn.out.audioSeen
  /\ ~(turn.inTime /\ turn.transcript # Null)

\* C26 (as claimed): such a turn reports no usable response (null text,
\* channel not used) when the captured audio has negligible energy, and
\* otherwise returns the canned fallback sentence.
C26_CascadeEndsInCannedSentence ==
  NullTextWithSignal
    => IF quietAudio(turn)
       THEN turn.result = [text |-> Null, usedVoice |-> FALSE]
       ELSE turn.result.text = buildFallbackCoachText

\* the step is the message handler, run for a frame that does not parse
InvalidFrame ==
  /\ Ran("onmessage")
  /\ errs' # <<>>

\* C27: a frame that does not parse is reported once through onError and
\* nothing else happens: state, socket, attempt counter, both timers and the
\* queue are unchanged, no onStateChange notification is emitted (the hook's
\* turn loop, which ends early only when the state leaves connected, goes
\* on), nothing is sent and no socket is created.  The time of the last
\* inbound message is refreshed as for any frame.
C27_InvalidFrameOnlyReported ==
  [][InvalidFrame
       => /\ errs' = <<"Invalid message from voice server.">>
          /\ UNCHANGED <<state, socket, readyState, attempt, reconnectTimer,
                         liveTimers, heartbeatTimer, queue, manuallyStopped,
                         online>>
          /\ notes' = (IF notes = <<>> THEN <<>> ELSE <<Last(notes)>>)
          /\ sent' = <<>>
          /\ created' = 0
          /\ age' = 0]_vars

\* C27 witness: a connected manager with a live heartbeat got a frame that
\* does not parse
C27_Witness ==
  /\ lastOp = "onmessage"
  /\ errs = <<"Invalid message from voice server.">>
  /\ state = "connected"
  /\ IsOpen
  /\ heartbeatTimer
  /\ attempt = 0
  /\ age = 0

\* C28 (as claimed): whenever the state is connected the manager holds a
\* socket whose readyState is OPEN.
C28_ConnectedHasOpenSocket ==
  state = "connected" => (socket /\ readyState = SOCKET_OPEN)

\* C29 (as claimed): a reopen timer is pending only while the state is
\* reconnecting.
C29_TimerOnlyWhileReconnecting ==
  liveTimers > 0 => state = "reconnecting"

\* C30 (as claimed): the open handler runs to completion: a flush loop that
\* was entered ends, whatever socket.send does.
C30_FlushRunsToCompletion == (pc = "flush") ~> (pc = "idle")

====
